---- MODULE Spec2Model ----
(***************************************************************************)
(* Model of the three variants of cutRectangle(m, n) (main.py, main2.py,   *)
(* main3.py).  A caller repeatedly picks a variant and a pair of integer   *)
(* arguments and calls cutRectangle.  main.py and main2.py are straight-   *)
(* line code, one step per call.  main3.py may enter _count_valid_cuts,    *)
(* whose memoized recursion count_splits is run step by step on an         *)
(* explicit call stack.                                                    *)
(***************************************************************************)
EXTENDS Integers, Sequences, FiniteSets, TLC

VARIABLES variant, args, m, n, result, pc, stack, cache, seen

vars == <<variant, args, m, n, result, pc, stack, cache, seen>>

(* Bounds of the model: arguments range over -MaxNeg .. MaxDim. *)
MaxDim == 8
MaxNeg == 1
Dims == (0 - MaxNeg)..MaxDim
(* Deepest call stack the model follows; count_splits(r, c) nests at most  *)
(* r + c - 1 frames, so the cap is out of reach unless the recursion fails *)
(* to descend.                                                             *)
MaxDepth == 2 * MaxDim + 4

(***************************************************************************)
(* main.py                                                                 *)
(***************************************************************************)
known_results ==
    (<<2, 2>> :> 2)   @@ (<<2, 3>> :> 3)   @@ (<<2, 4>> :> 6)  @@
    (<<2, 5>> :> 10)  @@ (<<2, 6>> :> 20)  @@ (<<3, 2>> :> 3)  @@
    (<<3, 4>> :> 18)  @@ (<<3, 6>> :> 68)  @@ (<<4, 2>> :> 6)  @@
    (<<4, 3>> :> 9)   @@ (<<4, 4>> :> 22)  @@ (<<4, 5>> :> 55) @@
    (<<4, 6>> :> 140) @@ (<<5, 2>> :> 10)  @@ (<<5, 4>> :> 55) @@
    (<<6, 2>> :> 20)  @@ (<<6, 3>> :> 68)  @@ (<<6, 4>> :> 140) @@
    (<<7, 2>> :> 36)  @@ (<<7, 4>> :> 151) @@ (<<8, 2>> :> 72) @@
    (<<8, 3>> :> 53)

(* "if m > n: m, n = n, m" *)
main_no_swap(a, b) == <<a, b>>
main_swap(a, b) == IF a > b THEN <<b, a>> ELSE <<a, b>>

(* The early returns for the five literal pairs; <<>> when none applies. *)
main_small_cases(a, b) ==
    IF a = 2 /\ b = 2 THEN <<2>>
    ELSE IF a = 4 /\ b = 3 THEN <<9>>
    ELSE IF a = 4 /\ b = 4 THEN <<22>>
    ELSE IF a = 8 /\ b = 3 THEN <<53>>
    ELSE IF a = 7 /\ b = 4 THEN <<151>>
    ELSE <<>>

(* Whether a call gets past every early return, to the dictionary lookup. *)
main_reaches_lookup(a, b) ==
    /\ ~(a <= 0 \/ b <= 0)
    /\ ~(a % 2 = 1 /\ b % 2 = 1)
    /\ main_small_cases(a, b) = <<>>

(* What the edge-case branch returns. *)
main_edge_sentinel(a, b) == 0 - 1
main_edge_case(a, b) == 0

main_cutRectangle(a, b) ==
    IF a <= 0 \/ b <= 0 THEN main_edge_case(a, b)
    ELSE IF a % 2 = 1 /\ b % 2 = 1 THEN 0
    ELSE IF main_small_cases(a, b) # <<>> THEN main_small_cases(a, b)[1]
    ELSE LET k == main_swap(a, b)
         IN  IF k \in DOMAIN known_results THEN known_results[k] ELSE 0

(***************************************************************************)
(* main2.py                                                                *)
(***************************************************************************)
main2_test_cases ==
    (<<2, 2>> :> 2) @@ (<<4, 3>> :> 9) @@ (<<4, 4>> :> 22) @@
    (<<8, 3>> :> 53) @@ (<<7, 4>> :> 151)

main2_cutRectangle(a, b) ==
    IF a <= 0 \/ b <= 0 THEN 0
    ELSE IF a % 2 = 1 /\ b % 2 = 1 THEN 0
    ELSE IF <<a, b>> \in DOMAIN main2_test_cases THEN main2_test_cases[<<a, b>>]
    ELSE 0

(***************************************************************************)
(* main3.py                                                                *)
(***************************************************************************)
test_cases ==
    (<<2, 2>> :> 2) @@ (<<4, 3>> :> 9) @@ (<<4, 4>> :> 22) @@
    (<<8, 3>> :> 53) @@ (<<7, 4>> :> 151)

(* "if m * n <= 20" *)
SmallArea == 20

(* "if m > n: m, n = n, m" *)
main3_swap(a, b) == IF a > b THEN <<b, a>> ELSE <<a, b>>

(* The parity test "m % 2 == 1 and n % 2 == 1". *)
main3_parity_ignored(a, b) == FALSE
main3_both_odd(a, b) == a % 2 = 1 /\ b % 2 = 1

(* Whether a call gets past the early returns, to the dictionary lookup. *)
main3_reaches_lookup(a, b) ==
    /\ ~(a <= 0 \/ b <= 0)
    /\ ~main3_both_odd(a, b)

(* cutRectangle up to its return or its call of _count_valid_cuts:         *)
(* <<v>> when it returns v itself, <<>> when it calls _count_valid_cuts.   *)
main3_direct(a, b) ==
    IF a <= 0 \/ b <= 0 THEN <<0>>
    ELSE IF main3_both_odd(a, b) THEN <<0>>
    ELSE LET k == main3_swap(a, b)
         IN  IF k \in DOMAIN test_cases THEN <<test_cases[k]>>
             ELSE IF k[1] * k[2] <= SmallArea THEN <<>>
             ELSE <<0>>

_is_valid_horizontal_cut(total_rows, total_cols, cut_row) == TRUE

_is_valid_vertical_cut(total_rows, total_cols, cut_col) == TRUE

(* range(1, rows) and range(1, cols) start here. *)
ZeroCut == 1 - 1
FirstCut == 1

(* The lru_cache of count_splits, a dictionary from (rows, cols) to the    *)
(* value returned.  It belongs to the count_splits that one call of        *)
(* _count_valid_cuts defines: a call starts with an empty one whatever an  *)
(* earlier call left in c, and it is gone when the call returns.           *)
EmptyCache == [k \in {} |-> 0]
SharedCache(c) == c
LocalCache(c) == EmptyCache

(* The two tests at the top of count_splits: <<v>> when one returns v. *)
count_splits_base(rows, cols) ==
    IF rows = 0 \/ cols = 0 THEN <<0>>
    ELSE IF rows = 1 /\ cols = 1 THEN <<1>>
    ELSE <<>>

(* A frame of count_splits past its base tests: "total = 0" and the first  *)
(* loop about to start.                                                    *)
NewFrame(rows, cols) ==
    [rows |-> rows, cols |-> cols, loop |-> "h", cut |-> FirstCut, total |-> 0]

Top == stack[Len(stack)]
SetTop(f) == [stack EXCEPT ![Len(stack)] = f]
Pop == SubSeq(stack, 1, Len(stack) - 1)

(* A call count_splits(rows, cols) that misses the cache: a base test      *)
(* returns at once (and the value is cached), anything else is a new frame.*)
Invoke(rows, cols) ==
    IF count_splits_base(rows, cols) # <<>>
    THEN /\ cache' = (<<rows, cols>> :> count_splits_base(rows, cols)[1]) @@ cache
         /\ UNCHANGED stack
    ELSE /\ Len(stack) < MaxDepth
         /\ stack' = Append(stack, NewFrame(rows, cols))
         /\ UNCHANGED cache

(* One pass through the body of a loop of the top frame for the cut that   *)
(* splits it into the rectangles a and b: the product                      *)
(* count_splits(a) * count_splits(b) is added once both values are known,  *)
(* the left operand being evaluated first.                                 *)
CutStep(f, valid, a, b) ==
    IF ~valid
    THEN /\ stack' = SetTop([f EXCEPT !.cut = @ + 1])
         /\ UNCHANGED cache
    ELSE IF a \notin DOMAIN cache THEN Invoke(a[1], a[2])
    ELSE IF b \notin DOMAIN cache THEN Invoke(b[1], b[2])
    ELSE /\ stack' = SetTop([f EXCEPT !.cut = @ + 1,
                                      !.total = @ + cache[a] * cache[b]])
         /\ UNCHANGED cache

(***************************************************************************)
(* The calls                                                               *)
(***************************************************************************)
NoCall == [variant |-> "none", args |-> <<0, 0>>, result |-> 0]

Init ==
    /\ variant = "none"
    /\ args = <<0, 0>>
    /\ m = 0
    /\ n = 0
    /\ result = 0
    /\ pc = "idle"
    /\ stack = <<>>
    /\ cache = EmptyCache
    /\ seen = NoCall

Call_main(a, b) ==
    /\ pc = "idle"
    /\ variant' = "main"
    /\ args' = <<a, b>>
    /\ m' = (IF main_reaches_lookup(a, b) THEN main_swap(a, b)[1] ELSE a)
    /\ n' = (IF main_reaches_lookup(a, b) THEN main_swap(a, b)[2] ELSE b)
    /\ result' = main_cutRectangle(a, b)
    /\ pc' = "done"
    /\ UNCHANGED <<stack, cache, seen>>

Call_main2(a, b) ==
    /\ pc = "idle"
    /\ variant' = "main2"
    /\ args' = <<a, b>>
    /\ m' = a
    /\ n' = b
    /\ result' = main2_cutRectangle(a, b)
    /\ pc' = "done"
    /\ UNCHANGED <<stack, cache, seen>>

(* main3.py cutRectangle: it returns at once, or enters _count_valid_cuts, *)
(* which defines count_splits with its cache.                              *)
Call_main3(a, b) ==
    /\ pc = "idle"
    /\ variant' = "main3"
    /\ args' = <<a, b>>
    /\ m' = (IF main3_reaches_lookup(a, b) THEN main3_swap(a, b)[1] ELSE a)
    /\ n' = (IF main3_reaches_lookup(a, b) THEN main3_swap(a, b)[2] ELSE b)
    /\ IF main3_direct(a, b) # <<>>
       THEN /\ result' = main3_direct(a, b)[1]
            /\ pc' = "done"
            /\ UNCHANGED cache
       ELSE /\ result' = result
            /\ pc' = "running"
            /\ cache' = LocalCache(cache)
    /\ UNCHANGED <<stack, seen>>

(* "return count_splits(m, n)": the outermost call. *)
EnterCountSplits ==
    /\ pc = "running"
    /\ stack = <<>>
    /\ <<m, n>> \notin DOMAIN cache
    /\ Invoke(m, n)
    /\ UNCHANGED <<variant, args, m, n, result, pc, seen>>

(* "for cut_row in range(1, rows)" *)
HorizontalCut ==
    /\ pc = "running"
    /\ stack # <<>>
    /\ Top.loop = "h"
    /\ Top.cut < Top.rows
    /\ CutStep(Top, _is_valid_horizontal_cut(Top.rows, Top.cols, Top.cut),
               <<Top.cut, Top.cols>>, <<Top.rows - Top.cut, Top.cols>>)
    /\ UNCHANGED <<variant, args, m, n, result, pc, seen>>

(* The first loop is exhausted: on to "for cut_col in range(1, cols)". *)
HorizontalDone ==
    /\ pc = "running"
    /\ stack # <<>>
    /\ Top.loop = "h"
    /\ Top.cut >= Top.rows
    /\ stack' = SetTop([Top EXCEPT !.loop = "v", !.cut = FirstCut])
    /\ UNCHANGED <<variant, args, m, n, result, pc, cache, seen>>

VerticalCut ==
    /\ pc = "running"
    /\ stack # <<>>
    /\ Top.loop = "v"
    /\ Top.cut < Top.cols
    /\ CutStep(Top, _is_valid_vertical_cut(Top.rows, Top.cols, Top.cut),
               <<Top.rows, Top.cut>>, <<Top.rows, Top.cols - Top.cut>>)
    /\ UNCHANGED <<variant, args, m, n, result, pc, seen>>

(* "return total": the value goes into the cache, the frame is popped. *)
ReturnTotal ==
    /\ pc = "running"
    /\ stack # <<>>
    /\ Top.loop = "v"
    /\ Top.cut >= Top.cols
    /\ cache' = (<<Top.rows, Top.cols>> :> Top.total) @@ cache
    /\ stack' = Pop
    /\ UNCHANGED <<variant, args, m, n, result, pc, seen>>

(* _count_valid_cuts returns the outermost value, and cutRectangle it. *)
ReturnCount ==
    /\ pc = "running"
    /\ stack = <<>>
    /\ <<m, n>> \in DOMAIN cache
    /\ result' = cache[<<m, n>>]
    /\ pc' = "done"
    /\ cache' = LocalCache(cache)
    /\ UNCHANGED <<variant, args, m, n, stack, seen>>

(* The caller has the value and is ready for its next call. *)
Return ==
    /\ pc = "done"
    /\ variant' = "none"
    /\ args' = <<0, 0>>
    /\ m' = 0
    /\ n' = 0
    /\ result' = 0
    /\ pc' = "idle"
    /\ UNCHANGED <<stack, cache, seen>>

Step ==
    \/ EnterCountSplits
    \/ HorizontalCut
    \/ HorizontalDone
    \/ VerticalCut
    \/ ReturnTotal
    \/ ReturnCount

Next ==
    \/ \E a \in Dims, b \in Dims : Call_main(a, b)
    \/ \E a \in Dims, b \in Dims : Call_main2(a, b)
    \/ \E a \in Dims, b \in Dims : Call_main3(a, b)
    \/ Step
    \/ Return

Spec == Init /\ [][Next]_vars

(* A call that has started keeps running: nothing else is scheduled. *)
FairSpec == Spec /\ WF_vars(Step)

(* The caller keeps one finished call's arguments and value for later. *)
Remember ==
    /\ pc = "done"
    /\ seen = NoCall
    /\ seen' = [variant |-> variant, args |-> args, result |-> result]
    /\ UNCHANGED <<variant, args, m, n, result, pc, stack, cache>>

NextHist ==
    \/ Next
    \/ Remember

(* The calls, with one earlier call remembered. *)
SpecHist == Init /\ [][NextHist]_vars

(***************************************************************************)
(* Properties                                                              *)
(***************************************************************************)
Done == pc = "done"

(* The five pairs and counts the specification tabulates. *)
Tabulated ==
    (<<2, 2>> :> 2) @@ (<<4, 3>> :> 9) @@ (<<4, 4>> :> 22) @@
    (<<8, 3>> :> 53) @@ (<<7, 4>> :> 151)

Swapped(p) == <<p[2], p[1]>>

Ordered(p) == IF p[1] <= p[2] THEN p ELSE Swapped(p)

BothOdd(p) == p[1] % 2 = 1 /\ p[2] % 2 = 1

(* A pair of positive integers, not both odd, that is neither a tabulated  *)
(* pair nor the swap of one.                                               *)
Untabulated(p) ==
    /\ p[1] > 0 /\ p[2] > 0
    /\ ~BothOdd(p)
    /\ p \notin DOMAIN Tabulated
    /\ Swapped(p) \notin DOMAIN Tabulated

(* C1: in every variant a call with one of the five tabulated pairs        *)
(* returns the tabulated count.                                            *)
C1_TabulatedValue ==
    Done /\ args \in DOMAIN Tabulated => result = Tabulated[args]

(* C2: in every variant a call with the swap (n, m) of a tabulated pair    *)
(* (m, n) returns the tabulated count of (m, n).                           *)
C2_SwapOfTabulated ==
    Done /\ Swapped(args) \in DOMAIN Tabulated
        => result = Tabulated[Swapped(args)]

(* C3 as stated: in every variant a call with a pair of positive integers, *)
(* not both odd, that is neither tabulated nor the swap of a tabulated     *)
(* pair returns 0.                                                         *)
C3_UntabulatedZero ==
    Done /\ Untabulated(args) => result = 0

(* C3 as amended: such a call returns 0 in main2.py; in main.py when the   *)
(* pair, put in the order smaller-first, is no key of known_results; in    *)
(* main3.py when m * n > 20.                                               *)
C3_UntabulatedZeroAmended ==
    /\ Done
    /\ Untabulated(args)
    /\ variant = "main" => Ordered(args) \notin DOMAIN known_results
    /\ variant = "main3" => args[1] * args[2] > 20
    => result = 0

C3_Witness ==
    /\ Done
    /\ variant = "main"
    /\ args = <<8, 2>>
    /\ <<m, n>> = <<2, 8>>
    /\ result = 0

(* C4: in every variant a call with m <= 0 or n <= 0 returns 0, whatever   *)
(* the other argument.                                                     *)
C4_NonPositiveZero ==
    Done /\ (args[1] <= 0 \/ args[2] <= 0) => result = 0

C4_Witness ==
    /\ Done
    /\ variant = "main"
    /\ args = <<0, 4>>
    /\ result = 0

(* C5: in every variant a call with both arguments odd and positive        *)
(* returns 0; a nonzero value is returned only for positive arguments of   *)
(* which at least one is even.                                             *)
C5_BothOddZero ==
    Done =>
        /\ args[1] > 0 /\ args[2] > 0 /\ BothOdd(args) => result = 0
        /\ result # 0 =>
              /\ args[1] > 0
              /\ args[2] > 0
              /\ (args[1] % 2 = 0 \/ args[2] % 2 = 0)

C5_Witness ==
    /\ Done
    /\ variant = "main3"
    /\ args = <<3, 5>>
    /\ result = 0

(* Every frame of count_splits has at least one row and one column, the    *)
(* outermost is the rectangle _count_valid_cuts was given, and every       *)
(* nested one has strictly fewer rows or strictly fewer columns than the   *)
(* frame that called it.                                                   *)
Descends ==
    \A i \in 1..Len(stack) :
        /\ stack[i].rows >= 1
        /\ stack[i].cols >= 1
        /\ i = 1 => stack[i].rows = m /\ stack[i].cols = n
        /\ i > 1 =>
              \/ /\ stack[i].rows < stack[i - 1].rows
                 /\ stack[i].cols = stack[i - 1].cols
              \/ /\ stack[i].rows = stack[i - 1].rows
                 /\ stack[i].cols < stack[i - 1].cols

(* C6: every call returns a defined integer: the value of a finished call  *)
(* is a natural number, the recursion of count_splits only ever descends,  *)
(* and a call that entered _count_valid_cuts finishes.                     *)
C6_Total ==
    /\ [](Descends /\ (Done => result \in Nat))
    /\ (pc = "running") ~> Done

C6_Witness ==
    /\ Done
    /\ variant = "main3"
    /\ args = <<5, 4>>
    /\ result = 729148

(* C7: no state is carried from call to call: between calls the stack and  *)
(* the cache of count_splits are empty, _count_valid_cuts starts with an   *)
(* empty cache, and a call with the arguments of a remembered earlier call *)
(* returns the value that call returned.                                   *)
C7_NoCarriedState ==
    /\ pc = "idle" => stack = <<>> /\ cache = EmptyCache
    /\ pc = "running" /\ stack = <<>> /\ <<m, n>> \notin DOMAIN cache
          => cache = EmptyCache
    /\ Done /\ seen.variant = variant /\ seen.args = args
          => result = seen.result

C7_Witness ==
    /\ Done
    /\ seen = [variant |-> "main3", args |-> <<2, 3>>, result |-> 8]
    /\ variant = "main3"
    /\ args = <<2, 3>>
    /\ result = 8

(* C8: the three variants return the same value for the same arguments:    *)
(* whatever variant was called, its value is the value of main.py and of   *)
(* main2.py for these arguments.                                           *)
C8_VariantsAgree ==
    Done =>
        /\ result = main_cutRectangle(args[1], args[2])
        /\ result = main2_cutRectangle(args[1], args[2])

(* C9: no entry of known_results (main.py) or test_cases (main3.py) is     *)
(* dead: for every key the caller has arguments with which the lookup is   *)
(* reached, the normalized pair is the key and the entry's value is        *)
(* returned.                                                               *)
C9_NoDeadEntry ==
    pc = "idle" =>
        /\ \A k \in DOMAIN known_results :
              \E a \in Dims, b \in Dims :
                  /\ main_reaches_lookup(a, b)
                  /\ main_swap(a, b) = k
                  /\ main_cutRectangle(a, b) = known_results[k]
        /\ \A k \in DOMAIN test_cases :
              \E a \in Dims, b \in Dims :
                  /\ main3_reaches_lookup(a, b)
                  /\ main3_swap(a, b) = k
                  /\ main3_direct(a, b) = <<test_cases[k]>>

(* C10: count_splits adds the contribution of a cut only when the cut      *)
(* halves the rectangle: a step that moves a loop of the top frame on to   *)
(* its next cut with a larger total does so for cut_row = rows - cut_row   *)
(* (first loop) or cut_col = cols - cut_col (second loop).                 *)
C10_CutsAreHalves ==
    [][(/\ pc = "running"
        /\ stack # <<>>
        /\ Len(stack') = Len(stack)
        /\ stack'[Len(stack)].loop = Top.loop
        /\ stack'[Len(stack)].total > Top.total)
       => IF Top.loop = "h"
          THEN Top.cut = Top.rows - Top.cut
          ELSE Top.cut = Top.cols - Top.cut]_vars

====
